---- MODULE Spec2Model ----
(***************************************************************************)
(* A model of the presscut relevance scorer (app.py and report.py) and of  *)
(* the collection pipeline that scores, sorts and merges RSS and           *)
(* government batches, of normalize_url, build_queries and the repost      *)
(* detector search_for_reposts (newsmonitor/search.py) and of the buckets  *)
(* of build_html_report (report.py).  Texts of the scorer, URLs and        *)
(* queries are sequences of one-character strings.                         *)
(***************************************************************************)
EXTENDS Integers, Sequences, FiniteSets, TLC

VARIABLES
    spc,          \* position of the scorer call: "input" | "scored"
    inp,          \* the arguments of one presscut_score call
    res_app,      \* what app.py's presscut_score returned
    res_report,   \* what report.py's presscut_score returned
    variant,      \* which file runs the collection: "app" | "report"
    pc,           \* position of the collection run
    results,      \* the `results` list of the batch function that is running
    seen_links,   \* the `seen_links` set of the government scraper
    articles,     \* `articles`: the returned RSS batch, later the merged list
    gov_articles, \* `gov_articles`: the returned government batch
    norm,         \* one normalize_url call: its argument and what it returned
    run,          \* arguments of search_for_reposts and what its environment can answer
    rpc,          \* position of search_for_reposts
    post_i,       \* index of the post of the outer loop
    query_i,      \* index of the query of the post that is searched next
    pending,      \* results of the last search that are not processed yet
    seen_urls,    \* the `seen_urls` set
    findings,     \* the `findings` list
    last,         \* the locals of the loop body after the last processed result
    log,          \* the calls made so far: counts of searches and sleeps, the extractions
    report,       \* build_html_report: its articles, its position, its buckets
    bq            \* one build_queries call: its post, its locals, what it returned

score_vars == <<spc, inp, res_app, res_report>>
run_vars == <<variant, pc, results, seen_links, articles, gov_articles>>
repost_vars == <<norm, run, rpc, post_i, query_i, pending, seen_urls, findings, last, log>>

vars == <<spc, inp, res_app, res_report,
          variant, pc, results, seen_links, articles, gov_articles,
          norm, run, rpc, post_i, query_i, pending, seen_urls, findings, last, log,
          report, bq>>

\* no search, sleep or extraction has been made
NoCalls == [searches |-> 0, failed |-> 0, sleeps |-> 0, returned |-> 0, extracted |-> <<>>]

\* normalize_url and search_for_reposts are not running
RepostIdle ==
    /\ norm = [pc |-> "idle"]
    /\ run = [pc |-> "idle"]
    /\ rpc = "idle"
    /\ post_i = 0
    /\ query_i = 0
    /\ pending = <<>>
    /\ seen_urls = {}
    /\ findings = <<>>
    /\ last = [outcome |-> "none"]
    /\ log = NoCalls
    /\ report = [pc |-> "idle"]
    /\ bq = [pc |-> "idle"]

-----------------------------------------------------------------------------
(* Bounds of the model *)

MaxTextLen == 3     \* len(title) + len(summary) of an enumerated item
MaxTerms   == 2     \* phrases over all four term lists of an enumerated call
MaxDay     == 6     \* days are 0..MaxDay
TicksPerDay == 2    \* instants of a day that published_at can take
MaxItems   == 2     \* items collected by one run before the manual documents

-----------------------------------------------------------------------------
(* Strings *)

UpperChars == <<"A","B","C","D","E","F","G","H","I","J","K","L","M",
                "N","O","P","Q","R","S","T","U","V","W","X","Y","Z">>
LowerChars == <<"a","b","c","d","e","f","g","h","i","j","k","l","m",
                "n","o","p","q","r","s","t","u","v","w","x","y","z">>

\* str.lower() of one character
LowerChar(c) ==
    IF \E i \in 1..Len(UpperChars) : UpperChars[i] = c
    THEN LowerChars[CHOOSE i \in 1..Len(UpperChars) : UpperChars[i] = c]
    ELSE c

\* str.lower()
Lower(s) == [i \in 1..Len(s) |-> LowerChar(s[i])]

\* Python's `sub in text`
Contains(text, sub) ==
    \E i \in 0..(Len(text) - Len(sub)) : SubSeq(text, i + 1, i + Len(sub)) = sub

\* Python's text.count(sub): a left-to-right scan that resumes after each match
RECURSIVE CountFrom(_, _, _)
CountFrom(text, sub, i) ==
    IF Len(sub) = 0 THEN Len(text) + 2 - i
    ELSE IF i + Len(sub) - 1 > Len(text) THEN 0
    ELSE IF SubSeq(text, i, i + Len(sub) - 1) = sub
         THEN 1 + CountFrom(text, sub, i + Len(sub))
         ELSE CountFrom(text, sub, i + 1)

StrCount(text, sub) == CountFrom(text, sub, 1)

-----------------------------------------------------------------------------
(* presscut_score *)

None == [kind |-> "None"]
IntResult(n) == [kind |-> "int", value |-> n]
IsNone(r) == r.kind = "None"

\* published_at.date()
DateOf(published_at) == published_at \div TicksPerDay

\* the exclude loop, with the phrase used as typed
ExcludeHit_NoLower(t_title, t_summary, exclude) ==
    \E i \in 1..Len(exclude) :
        Contains(t_title, exclude[i]) \/ Contains(t_summary, exclude[i])

\* for w in exclude: if lw in t_title or lw in t_summary: return None
ExcludeHit(t_title, t_summary, exclude) ==
    \E i \in 1..Len(exclude) :
        LET lw == Lower(exclude[i])
        IN  Contains(t_title, lw) \/ Contains(t_summary, lw)

\* the must-have loop rejecting only when no phrase at all is found
MustMissing_WhenAllMissing(t_title, t_summary, must_have) ==
    /\ Len(must_have) > 0
    /\ \A i \in 1..Len(must_have) :
          LET lw == Lower(must_have[i])
          IN  ~Contains(t_title, lw) /\ ~Contains(t_summary, lw)

\* for w in must_have: if lw not in t_title and lw not in t_summary: return None
MustMissing(t_title, t_summary, must_have) ==
    \E i \in 1..Len(must_have) :
        LET lw == Lower(must_have[i])
        IN  ~Contains(t_title, lw) /\ ~Contains(t_summary, lw)

\* count_hits counting overlapping occurrences
count_hits_Overlapping(text, word) ==
    LET lw == Lower(word)
    IN  Cardinality({i \in 1..Len(text) :
                        /\ i + Len(lw) - 1 <= Len(text)
                        /\ SubSeq(text, i, i + Len(lw) - 1) = lw})

\* def count_hits(text, word): return text.count(word.lower())
count_hits(text, word) == StrCount(text, Lower(word))

\* one accumulation loop weighting summary hits like title hits
RECURSIVE Accumulate_TitleWeightOnly(_, _, _, _, _)
Accumulate_TitleWeightOnly(t_title, t_summary, terms, w_title, w_summary) ==
    IF Len(terms) = 0 THEN 0
    ELSE LET lw == Lower(Head(terms))
         IN  count_hits(t_title, lw) * w_title
             + count_hits(t_summary, lw) * w_title
             + Accumulate_TitleWeightOnly(t_title, t_summary, Tail(terms),
                                          w_title, w_summary)

\* one accumulation loop: score += hits_title * w_title; score += hits_summary * w_summary
RECURSIVE Accumulate(_, _, _, _, _)
Accumulate(t_title, t_summary, terms, w_title, w_summary) ==
    IF Len(terms) = 0 THEN 0
    ELSE LET lw == Lower(Head(terms))
         IN  count_hits(t_title, lw) * w_title
             + count_hits(t_summary, lw) * w_summary
             + Accumulate(t_title, t_summary, Tail(terms), w_title, w_summary)

\* base_hit / nice_hit: if hits_title or hits_summary: ..._hit = True
AnyHit(t_title, t_summary, terms) ==
    \E i \in 1..Len(terms) :
        LET lw == Lower(terms[i])
        IN  count_hits(t_title, lw) # 0 \/ count_hits(t_summary, lw) # 0

Max(a, b) == IF a >= b THEN a ELSE b

\* the recency bonus without the clamp of negative ages
RecencyBonus_NoClamp(published_at, ref_date) ==
    LET age_days == ref_date - DateOf(published_at)
    IN  Max(0, 5 - age_days)

\* age_days = (ref_date - published_at.date()).days; clamp; max(0, 5 - age_days)
RecencyBonus(published_at, ref_date) ==
    LET age_days0 == ref_date - DateOf(published_at)
        age_days  == IF age_days0 < 0 THEN 0 ELSE age_days0
    IN  Max(0, 5 - age_days)

\* the tail of the function with the soft gate returning the score so far
GateAndFinish_GateReturnsScore(must_have, gate_hit, score, recency_bonus) ==
    IF Len(must_have) = 0 /\ ~gate_hit THEN IntResult(score)
    ELSE LET total == score + recency_bonus
         IN  IF total > 0 THEN IntResult(total) ELSE None

\* if not must_have and not <hit>: return None; score += bonus;
\* return score if score > 0 else None
GateAndFinish(must_have, gate_hit, score, recency_bonus) ==
    IF Len(must_have) = 0 /\ ~gate_hit THEN None
    ELSE LET total == score + recency_bonus
         IN  IF total > 0 THEN IntResult(total) ELSE None

\* the weighted sum of the three accumulation loops
WeightedScore(t_title, t_summary, a) ==
    Accumulate(t_title, t_summary, a.must_have, 5, 3)
    + Accumulate(t_title, t_summary, a.base_keywords, 3, 2)
    + Accumulate(t_title, t_summary, a.nice_to_have, 2, 1)

\* app.py: the soft gate looks at base_hit only
presscut_score_app(a) ==
    LET t_title   == Lower(a.title)
        t_summary == Lower(a.summary)
    IN  IF ExcludeHit(t_title, t_summary, a.exclude) THEN None
        ELSE IF MustMissing(t_title, t_summary, a.must_have) THEN None
        ELSE GateAndFinish(a.must_have,
                           AnyHit(t_title, t_summary, a.base_keywords),
                           WeightedScore(t_title, t_summary, a),
                           RecencyBonus(a.published_at, a.ref_date))

\* report.py: the soft gate looks at base_hit or nice_hit
presscut_score_report(a) ==
    LET t_title   == Lower(a.title)
        t_summary == Lower(a.summary)
    IN  IF ExcludeHit(t_title, t_summary, a.exclude) THEN None
        ELSE IF MustMissing(t_title, t_summary, a.must_have) THEN None
        ELSE GateAndFinish(a.must_have,
                           AnyHit(t_title, t_summary, a.base_keywords)
                               \/ AnyHit(t_title, t_summary, a.nice_to_have),
                           WeightedScore(t_title, t_summary, a),
                           RecencyBonus(a.published_at, a.ref_date))

-----------------------------------------------------------------------------
(* Inputs of the scorer *)

SeqsUpTo(S, n) == UNION {[1..k -> S] : k \in 0..n}

TextChars == {"a", "A", "b"}
Phrases == {<<"B">>, <<"a", "a">>}

Texts == SeqsUpTo(TextChars, MaxTextLen)
TextPairs == {p \in Texts \X Texts : Len(p[1]) + Len(p[2]) <= MaxTextLen}

TermLists == SeqsUpTo(Phrases, MaxTerms)
TermConfigs ==
    {c \in [base_keywords : TermLists, must_have : TermLists,
            nice_to_have : TermLists, exclude : TermLists] :
        Len(c.base_keywords) + Len(c.must_have)
            + Len(c.nice_to_have) + Len(c.exclude) <= MaxTerms}

Ticks == 0..((MaxDay + 1) * TicksPerDay - 1)
Days == 0..MaxDay

Args(title, summary, c, published_at, ref_date) ==
    [title |-> title, summary |-> summary,
     base_keywords |-> c.base_keywords, must_have |-> c.must_have,
     nice_to_have |-> c.nice_to_have, exclude |-> c.exclude,
     published_at |-> published_at, ref_date |-> ref_date]

\* every short item against every small term configuration, published MaxDay
\* days before the reference date
TermInputs ==
    {Args(p[1], p[2], c, 0, MaxDay) : p \in TextPairs, c \in TermConfigs}

\* a few items over every publication instant and reference date
DayConfigs ==
    {[base_keywords |-> <<<<"a">>>>, must_have |-> <<>>,
      nice_to_have |-> <<>>, exclude |-> <<>>],
     [base_keywords |-> <<>>, must_have |-> <<<<"a">>>>,
      nice_to_have |-> <<<<"B">>>>, exclude |-> <<>>]}
DayInputs ==
    {Args(<<"A">>, s, c, t, d) :
        s \in {<<>>, <<"b">>}, c \in DayConfigs, t \in Ticks, d \in Days}

\* the worked example: published one day before the reference date
ExampleTitle ==
    <<"P","o","r","e","z","n","a"," ","r","e","f","o","r","m","a"," ",
      "d","o","n","o","s","i"," ","n","o","v","e"," ","s","t","o","p","e"," ",
      "P","D","V","-","a">>
ExampleSummary ==
    <<"V","l","a","d","a"," ","n","a","j","a","v","l","j","u","j","e"," ",
      "p","r","o","m","j","e","n","e"," ","p","o","r","e","z","a",".">>
ExampleTerms ==
    [base_keywords |-> << <<"p","d","v">> >>,
     must_have |-> << <<"p","o","r","e","z","n","a"," ","r","e","f","o","r","m","a">> >>,
     nice_to_have |-> << <<"v","l","a","d","a">> >>,
     exclude |-> << <<"s","p","o","r","t">> >>]
ExampleArgs ==
    Args(ExampleTitle, ExampleSummary, ExampleTerms,
         (MaxDay - 1) * TicksPerDay, MaxDay)
ExampleExcludedArgs ==
    [ExampleArgs EXCEPT !.exclude = << <<"p","o","r","e","z","n","a">> >>]

ScoreInputs == TermInputs \cup DayInputs \cup {ExampleArgs, ExampleExcludedArgs}

-----------------------------------------------------------------------------
(* The scorer as a state machine: one call per behaviour *)

\* the arguments of one call; the collection run stays idle
InitScore ==
    /\ spc = "input"
    /\ inp \in ScoreInputs
    /\ res_app = None
    /\ res_report = None
    /\ variant = "none"
    /\ pc = "idle"
    /\ results = <<>>
    /\ seen_links = {}
    /\ articles = <<>>
    /\ gov_articles = <<>>
    /\ RepostIdle

\* one call of presscut_score in each of the two files, on the same arguments
CallPresscutScore ==
    /\ spc = "input"
    /\ res_app' = presscut_score_app(inp)
    /\ res_report' = presscut_score_report(inp)
    /\ spc' = "scored"
    /\ UNCHANGED <<bq, report, inp, run_vars, repost_vars>>

NextScore == CallPresscutScore

SpecScore == InitScore /\ [][NextScore]_vars

-----------------------------------------------------------------------------
(* URLs *)

\* the first index >= from at which c occurs in s, or Len(s) + 1
RECURSIVE IndexOf(_, _, _)
IndexOf(s, c, from) ==
    IF from > Len(s) THEN Len(s) + 1
    ELSE IF s[from] = c THEN from
    ELSE IndexOf(s, c, from + 1)

Min(a, b) == IF a <= b THEN a ELSE b

\* urlparse of scheme://netloc/path?query#fragment
urlparse(url) ==
    LET colon    == IndexOf(url, ":", 1)
        hasNet   == /\ colon + 2 <= Len(url)
                    /\ url[colon + 1] = "/" /\ url[colon + 2] = "/"
        scheme   == IF colon <= Len(url) THEN Lower(SubSeq(url, 1, colon - 1)) ELSE <<>>
        afterSch == IF colon <= Len(url) THEN colon + 1 ELSE 1
        netStart == IF hasNet THEN afterSch + 2 ELSE afterSch
        hash     == IndexOf(url, "#", netStart)
        quest    == Min(IndexOf(url, "?", netStart), hash)
        netEnd   == IF hasNet THEN Min(IndexOf(url, "/", netStart), quest) ELSE netStart
    IN  [scheme   |-> scheme,
         netloc   |-> SubSeq(url, netStart, netEnd - 1),
         path     |-> SubSeq(url, netEnd, quest - 1),
         query    |-> SubSeq(url, quest + 1, hash - 1),
         fragment |-> SubSeq(url, hash + 1, Len(url))]

\* url.rsplit("/", 1)[-1]
RECURSIVE LastSegment(_)
LastSegment(url) ==
    IF Len(url) = 0 THEN <<>>
    ELSE IF url[Len(url)] = "/" THEN <<>>
    ELSE Append(LastSegment(SubSeq(url, 1, Len(url) - 1)), url[Len(url)])

HttpH   == <<"h","t","t","p",":","/","/","h">>
HttpHUp == <<"h","t","t","p",":","/","/","H">>

\* links that feeds and government pages can carry: three spellings of one
\* address and one other address
Links == {HttpH \o <<"/","b">>, HttpHUp \o <<"/","b">>,
          HttpH \o <<"/","b","/">>, HttpH \o <<"/","q">>}

\* the manually listed government documents
GOV_MANUAL_DOCS == << HttpH \o <<"/","b">> >>

-----------------------------------------------------------------------------
(* The collection run: RSS batch, government batch, merge *)

MIN_SCORE == 23

GovSource == "Vlada/EU"
RssSources == {"N1"}

\* the terms of the run
RunTerms ==
    [base_keywords |-> << <<"B">> >>, must_have |-> <<>>,
     nice_to_have |-> <<>>, exclude |-> << <<"a","a">> >>]

date_to == MaxDay
date_from == MaxDay - 1

\* titles of entries and anchors: one that scores, one that is excluded
ItemTitles == {<<"b">>, <<"a","a">>}

\* publication instants: two on date_to, one on date_from, one before and one
\* after the range
EntryTicks ==
    {date_to * TicksPerDay, date_to * TicksPerDay + 1,
     date_from * TicksPerDay, (date_from - 1) * TicksPerDay,
     (date_to + 1) * TicksPerDay}

\* the range test without its upper end
InRange_NoUpperEnd(published_at) ==
    date_from <= DateOf(published_at)

InRange(published_at) ==
    date_from <= DateOf(published_at) /\ DateOf(published_at) <= date_to

presscut_score(v, a) ==
    IF v = "app" THEN presscut_score_app(a) ELSE presscut_score_report(a)

Item(title, link, source, published_at, summary, score) ==
    [title |-> title, link |-> link, source |-> source,
     published_at |-> published_at, summary |-> summary, score |-> score]

\* the sort key compared on the score alone
KeyBefore_ScoreOnly(a, b) == a.score > b.score

\* key=lambda x: (x["score"], x["published_at"]), reverse=True: a sorts
\* strictly before b
KeyBefore(a, b) ==
    \/ a.score > b.score
    \/ a.score = b.score /\ a.published_at > b.published_at

\* list.sort: stable, so an item goes after every item that does not sort
\* strictly after it
InsertSorted(sorted, x) ==
    LET k == Cardinality({i \in 1..Len(sorted) : ~KeyBefore(x, sorted[i])})
    IN  SubSeq(sorted, 1, k) \o <<x>> \o SubSeq(sorted, k + 1, Len(sorted))

RECURSIVE SortDesc(_)
SortDesc(s) ==
    IF Len(s) = 0 THEN <<>>
    ELSE InsertSorted(SortDesc(SubSeq(s, 1, Len(s) - 1)), s[Len(s)])

LinksOf(s) == {s[i].link : i \in 1..Len(s)}

\* the merge loop without seen.add
RECURSIVE AppendUnseen_NoSeenAdd(_, _, _)
AppendUnseen_NoSeenAdd(arts, seen, gov) ==
    IF Len(gov) = 0 THEN arts
    ELSE LET g == Head(gov)
         IN  IF g.link \notin seen
             THEN AppendUnseen_NoSeenAdd(Append(arts, g), seen, Tail(gov))
             ELSE AppendUnseen_NoSeenAdd(arts, seen, Tail(gov))

\* for g in gov_articles: if g["link"] not in seen: articles.append(g); seen.add(g["link"])
RECURSIVE AppendUnseen(_, _, _)
AppendUnseen(arts, seen, gov) ==
    IF Len(gov) = 0 THEN arts
    ELSE LET g == Head(gov)
         IN  IF g.link \notin seen
             THEN AppendUnseen(Append(arts, g), seen \cup {g.link}, Tail(gov))
             ELSE AppendUnseen(arts, seen, Tail(gov))

\* app.py: merge when there is a government batch, then sort in any case
MergeApp(arts, gov) ==
    SortDesc(IF Len(gov) > 0 THEN AppendUnseen(arts, LinksOf(arts), gov) ELSE arts)

\* report.py: merge and sort only when there is a government batch
MergeReport(arts, gov) ==
    IF Len(gov) > 0 THEN SortDesc(AppendUnseen(arts, LinksOf(arts), gov)) ELSE arts

\* the start of a collection run; the single-call variables stay idle
Init ==
    /\ spc = "idle"
    /\ inp = ExampleArgs
    /\ res_app = None
    /\ res_report = None
    /\ variant \in {"app", "report"}
    /\ pc = "rss"
    /\ results = <<>>
    /\ seen_links = {}
    /\ articles = <<>>
    /\ gov_articles = <<>>
    /\ RepostIdle

\* search_rss_articles / fetch_articles: one entry of a feed
RssEntry ==
    /\ pc = "rss"
    /\ Len(results) < MaxItems
    /\ \E title \in ItemTitles, link \in Links, pub_dt \in EntryTicks,
          source_name \in RssSources :
          LET summary == <<>>
              score == presscut_score(variant,
                           Args(title, summary, RunTerms, pub_dt, date_to))
          IN  results' =
                  IF ~InRange(pub_dt) \/ IsNone(score) THEN results
                  ELSE Append(results,
                              Item(title, link, source_name, pub_dt, summary,
                                   score.value))
    /\ UNCHANGED <<repost_vars, bq, report, score_vars, variant, pc, seen_links, articles, gov_articles>>

\* search_rss_articles / fetch_articles: results.sort(...); return results
RssReturn ==
    /\ pc = "rss"
    /\ articles' = SortDesc(results)
    /\ results' = <<>>
    /\ pc' = "gov"
    /\ UNCHANGED <<repost_vars, bq, report, score_vars, variant, seen_links, gov_articles>>

\* search_gov_pages / fetch_gov_articles: one anchor of a scraped page;
\* allowed is the outcome of the tests on the shape of the link and the title,
\* pub_dt what guess_pub_date_from_url makes of the link
GovAnchor ==
    /\ pc = "gov"
    /\ Len(articles) + Len(results) < MaxItems
    /\ \E title \in ItemTitles, full_url \in Links, pub_dt \in EntryTicks,
          allowed \in BOOLEAN :
          LET summary == <<>>
              score == presscut_score(variant,
                           Args(title, summary, RunTerms, pub_dt, date_to))
          IN  IF full_url \in seen_links
              THEN UNCHANGED <<seen_links, results>>
              ELSE /\ seen_links' = seen_links \cup {full_url}
                   /\ results' =
                          IF ~allowed \/ ~InRange(pub_dt) \/ IsNone(score)
                          THEN results
                          ELSE Append(results,
                                      Item(title, full_url, GovSource, pub_dt,
                                           summary, score.value))
    /\ UNCHANGED <<repost_vars, bq, report, score_vars, variant, pc, articles, gov_articles>>

\* the manual documents loop over docs[i..], appending to res
RECURSIVE ManualDocs(_, _, _, _, _)
ManualDocs(v, docs, i, pub_dt, res) ==
    IF i > Len(docs) THEN res
    ELSE LET url   == docs[i]
             title == LastSegment(url)
             score == presscut_score(v, Args(title, <<>>, RunTerms, pub_dt, date_to))
         IN  ManualDocs(v, docs, i + 1, pub_dt,
                 IF ~InRange(pub_dt) \/ IsNone(score) THEN res
                 ELSE Append(res, Item(title, url, GovSource, pub_dt, <<>>,
                                       score.value)))

\* search_gov_pages / fetch_gov_articles: the manual documents, then
\* results.sort(...); return results
GovReturn ==
    /\ pc = "gov"
    /\ \E pub_dt \in EntryTicks :
          gov_articles' =
              SortDesc(ManualDocs(variant, GOV_MANUAL_DOCS, 1, pub_dt, results))
    /\ results' = <<>>
    /\ seen_links' = {}
    /\ pc' = "merge"
    /\ UNCHANGED <<repost_vars, bq, report, score_vars, variant, articles>>

\* render_rss_mode / main: merge the government batch into articles and sort
Merge ==
    /\ pc = "merge"
    /\ articles' = IF variant = "app" THEN MergeApp(articles, gov_articles)
                   ELSE MergeReport(articles, gov_articles)
    /\ pc' = "merged"
    /\ UNCHANGED <<repost_vars, bq, report, score_vars, variant, results, seen_links, gov_articles>>

\* report.py main: articles = [a for a in articles if a.get("score", 0) >= MIN_SCORE]
FilterMinScore ==
    /\ pc = "merged"
    /\ variant = "report"
    /\ articles' = SelectSeq(articles, LAMBDA a : a.score >= MIN_SCORE)
    /\ pc' = "filtered"
    /\ UNCHANGED <<repost_vars, bq, report, score_vars, variant, results, seen_links, gov_articles>>

Next ==
    \/ RssEntry
    \/ RssReturn
    \/ GovAnchor
    \/ GovReturn
    \/ Merge
    \/ FilterMinScore

Spec == Init /\ [][Next]_vars

-----------------------------------------------------------------------------
(* What the claims speak of, stated on the arguments alone *)

\* phrase occurs in text at position i, letter case ignored
MatchAtCI(text, phrase, i) ==
    /\ i + Len(phrase) - 1 <= Len(text)
    /\ \A k \in 1..Len(phrase) : LowerChar(text[i + k - 1]) = LowerChar(phrase[k])

MatchPositions(text, phrase) == {i \in 1..Len(text) : MatchAtCI(text, phrase, i)}

OccursCI(text, phrase) == MatchPositions(text, phrase) # {}

OccursInItem(a, phrase) == OccursCI(a.title, phrase) \/ OccursCI(a.summary, phrase)

\* the largest number of pairwise non-overlapping occurrences
NonOverlapping(text, phrase) ==
    LET ok(S) == \A i \in S : \A j \in S : i < j => j - i >= Len(phrase)
        sizes == {Cardinality(S) : S \in {T \in SUBSET MatchPositions(text, phrase) : ok(T)}}
    IN  CHOOSE n \in sizes : \A m \in sizes : m <= n

RECURSIVE HitSum(_, _, _, _, _)
HitSum(a, terms, i, w_title, w_summary) ==
    IF i > Len(terms) THEN 0
    ELSE NonOverlapping(a.title, terms[i]) * w_title
         + NonOverlapping(a.summary, terms[i]) * w_summary
         + HitSum(a, terms, i + 1, w_title, w_summary)

ExpectedHits(a) ==
    HitSum(a, a.must_have, 1, 5, 3)
    + HitSum(a, a.base_keywords, 1, 3, 2)
    + HitSum(a, a.nice_to_have, 1, 2, 1)

AgeOf(published_at, ref_date) == ref_date - (published_at \div TicksPerDay)
ExpectedBonus(age) == Max(0, 5 - Max(0, age))

ExcludeOccurs(a) == \E i \in 1..Len(a.exclude) : OccursInItem(a, a.exclude[i])
AllMustOccur(a) == \A i \in 1..Len(a.must_have) : OccursInItem(a, a.must_have[i])
BaseOccurs(a) == \E i \in 1..Len(a.base_keywords) : OccursInItem(a, a.base_keywords[i])
NiceOccurs(a) == \E i \in 1..Len(a.nice_to_have) : OccursInItem(a, a.nice_to_have[i])

Results == {res_app, res_report}
Kept(r) == ~IsNone(r)

-----------------------------------------------------------------------------
(* Claims about presscut_score, checked under SpecScore *)

\* C1: an item in which an exclude phrase occurs, letter case ignored, in the
\* title or in the summary is rejected by both scorers, whatever else matches.
C1_ExcludeDominates ==
    (spc = "scored" /\ ExcludeOccurs(inp)) => (IsNone(res_app) /\ IsNone(res_report))

\* an excluded item that has every must-have phrase and a base-keyword hit
C1_Witness ==
    /\ spc = "scored"
    /\ ExcludeOccurs(inp)
    /\ Len(inp.must_have) > 0 /\ AllMustOccur(inp)
    /\ IsNone(res_app) /\ IsNone(res_report)

\* C2: with a non-empty mustHave a score is returned only for items in which
\* every must-have phrase occurs in the title or in the summary.
C2_MustHaveAll ==
    (spc = "scored" /\ Len(inp.must_have) > 0)
        => \A r \in Results : Kept(r) => AllMustOccur(inp)

\* two must-have phrases, one found only in the title, the other only in the summary
C2_Witness ==
    /\ spc = "scored"
    /\ Len(inp.must_have) = 2
    /\ OccursCI(inp.title, inp.must_have[1]) /\ ~OccursCI(inp.summary, inp.must_have[1])
    /\ OccursCI(inp.summary, inp.must_have[2]) /\ ~OccursCI(inp.title, inp.must_have[2])
    /\ Kept(res_app) /\ Kept(res_report)

\* C3 as stated: the worked example scores 14.
C3_ExampleScores14 ==
    (spc = "scored" /\ inp = ExampleArgs)
        => (res_app = IntResult(14) /\ res_report = IntResult(14))

\* C3, amended: the worked example scores 13 (5 for the must-have title hit,
\* 3 for the base-keyword title hit, 1 for the nice-to-have summary hit, bonus 4).
C3_ExampleScores13 ==
    (spc = "scored" /\ inp = ExampleArgs)
        => (res_app = IntResult(13) /\ res_report = IntResult(13))

C3_Witness ==
    /\ spc = "scored"
    /\ inp = ExampleArgs
    /\ AgeOf(inp.published_at, inp.ref_date) = 1
    /\ Kept(res_app) /\ Kept(res_report)

\* C4: with mustHave empty and no exclude phrase present, each scorer rejects
\* exactly when neither a base keyword nor a nice-to-have phrase occurs.
C4_SoftGateEitherGroup ==
    (spc = "scored" /\ Len(inp.must_have) = 0 /\ ~ExcludeOccurs(inp))
        => \A r \in Results : IsNone(r) <=> ~(BaseOccurs(inp) \/ NiceOccurs(inp))

\* C5: a returned score is the weighted sum of the non-overlapping,
\* case-insensitive occurrence counts of the three term lists (a repeated
\* phrase counted once per repetition) plus the recency bonus.
C5_WeightedSum ==
    spc = "scored"
        => \A r \in Results :
              Kept(r) => r.value = ExpectedHits(inp)
                            + ExpectedBonus(AgeOf(inp.published_at, inp.ref_date))

\* a phrase listed twice whose occurrences in the title overlap
C5_Witness ==
    /\ spc = "scored"
    /\ Kept(res_app) /\ Kept(res_report)
    /\ \E l \in {inp.must_have, inp.base_keywords, inp.nice_to_have} :
          /\ Len(l) = 2 /\ l[1] = l[2]
          /\ Cardinality(MatchPositions(inp.title, l[1])) = 2
          /\ NonOverlapping(inp.title, l[1]) = 1

\* C6: the bonus that a returned score contains is max(0, 5 - max(0, age)):
\* 0 from age 5 on, 5 for a future-dated item, and never larger for an older item.
C6_RecencyBonus ==
    spc = "scored"
        => \A r \in Results :
              Kept(r) =>
                LET age   == AgeOf(inp.published_at, inp.ref_date)
                    bonus == r.value - ExpectedHits(inp)
                IN  /\ bonus = ExpectedBonus(age)
                    /\ age >= 5 => bonus = 0
                    /\ age < 0 => bonus = 5
                    /\ \A t \in Ticks :
                          AgeOf(t, inp.ref_date) >= age
                              => RecencyBonus(t, inp.ref_date) <= bonus

\* a future-dated item that is kept
C6_Witness ==
    /\ spc = "scored"
    /\ AgeOf(inp.published_at, inp.ref_date) < 0
    /\ Kept(res_app) /\ Kept(res_report)
    /\ res_app.value - ExpectedHits(inp) = 5

\* C7: a scorer returns None or an integer that is at least 1.
C7_RejectOrPositive ==
    spc = "scored" => \A r \in Results : IsNone(r) \/ r.value >= 1

\* the smallest kept score: one nice-to-have hit in the summary of an old item
C7_Witness ==
    /\ spc = "scored"
    /\ res_report = IntResult(1)
    /\ AgeOf(inp.published_at, inp.ref_date) >= 5

-----------------------------------------------------------------------------
(* Claims about the batches and their merge, checked under Spec *)

IsOrdered(s) ==
    \A i \in 1..(Len(s) - 1) :
        \/ s[i].score > s[i + 1].score
        \/ s[i].score = s[i + 1].score /\ s[i].published_at >= s[i + 1].published_at

\* C8: every returned batch (the RSS batch, the government batch, the merged
\* list) is ordered descending by (score, publishedAt).
C8_BatchesOrdered == IsOrdered(articles) /\ IsOrdered(gov_articles)

\* a merged list of three with a government item, a tie on the score broken by
\* the publication time, and two different scores
C8_Witness ==
    /\ pc = "merged"
    /\ Len(articles) >= 3
    /\ \E i \in 1..Len(articles) : articles[i].source = GovSource
    /\ \E i \in 1..(Len(articles) - 1) :
          /\ articles[i].score = articles[i + 1].score
          /\ articles[i].published_at > articles[i + 1].published_at
    /\ \E i \in 1..(Len(articles) - 1) : articles[i].score > articles[i + 1].score

\* two links that differ only by a trailing slash or by the case of the host
DiffersOnlyBySlashOrHostCase(u, v) ==
    LET p == urlparse(u)
        q == urlparse(v)
    IN  /\ u # v
        /\ p.scheme = q.scheme
        /\ Lower(p.netloc) = Lower(q.netloc)
        /\ \/ p.path = q.path
           \/ p.path = q.path \o <<"/">>
           \/ q.path = p.path \o <<"/">>
        /\ p.query = q.query
        /\ p.fragment = q.fragment

\* C9: after the merge no government item stands beside an item whose link
\* differs from its own only by a trailing slash or by the case of the host.
C9_CanonicalDuplicatesMerged ==
    pc = "merged" =>
        \A i \in 1..Len(articles) : \A j \in 1..Len(articles) :
            (i # j /\ articles[j].source = GovSource)
                => ~DiffersOnlyBySlashOrHostCase(articles[i].link, articles[j].link)

CountIn(s, x) == Cardinality({i \in 1..Len(s) : s[i] = x})
FirstWithLink(s, l) ==
    s[CHOOSE i \in 1..Len(s) :
          s[i].link = l /\ \A j \in 1..(i - 1) : s[j].link # l]

\* C10: the merge keeps every item of the collection unchanged, adds for each
\* new link the first item of the batch that carries it, and adds nothing for
\* a link the collection or an earlier item of the batch already carries.
C10_MergeKeepsFirst ==
    [][pc = "merge" =>
        /\ \A i \in 1..Len(articles) :
              CountIn(articles', articles[i]) = CountIn(articles, articles[i])
        /\ \A k \in 1..Len(articles') :
              articles'[k].link \in LinksOf(articles)
                  => \E i \in 1..Len(articles) : articles[i] = articles'[k]
        /\ \A l \in LinksOf(gov_articles) \ LinksOf(articles) :
              /\ Cardinality({k \in 1..Len(articles') : articles'[k].link = l}) = 1
              /\ \E k \in 1..Len(articles') :
                    articles'[k] = FirstWithLink(gov_articles, l)
        /\ LinksOf(articles') = LinksOf(articles) \cup LinksOf(gov_articles)
        /\ Len(articles') = Len(articles)
              + Cardinality(LinksOf(gov_articles) \ LinksOf(articles))
    ]_vars

\* a merged list for which a government item was dropped for an RSS item with
\* the same link and other data, and the batch carried one link twice
C10_Witness ==
    /\ pc = "merged"
    /\ \E k \in 1..Len(articles) : \E i \in 1..Len(gov_articles) :
          /\ articles[k].source # GovSource
          /\ gov_articles[i].link = articles[k].link
          /\ gov_articles[i].published_at # articles[k].published_at
          /\ CountIn(articles, gov_articles[i]) = 0
    /\ \E i \in 1..Len(gov_articles) : \E j \in 1..Len(gov_articles) :
          i < j /\ gov_articles[i].link = gov_articles[j].link

-----------------------------------------------------------------------------
(* normalize_url (newsmonitor/search.py) *)

MaxPathLen == 4     \* characters of the path of an enumerated URL

\* s.rstrip(c)
RECURSIVE rstrip(_, _)
rstrip(s, c) ==
    IF Len(s) > 0 /\ s[Len(s)] = c THEN rstrip(SubSeq(s, 1, Len(s) - 1), c) ELSE s

\* urlunparse of a parse result without params
urlunparse(p) ==
    LET withNet == IF Len(p.netloc) > 0
                   THEN <<"/","/">> \o p.netloc
                        \o (IF Len(p.path) > 0 /\ p.path[1] # "/" THEN <<"/">> ELSE <<>>)
                        \o p.path
                   ELSE p.path
        withSch == IF Len(p.scheme) > 0 THEN p.scheme \o <<":">> \o withNet ELSE withNet
        withQ   == IF Len(p.query) > 0 THEN withSch \o <<"?">> \o p.query ELSE withSch
    IN  IF Len(p.fragment) > 0 THEN withQ \o <<"#">> \o p.fragment ELSE withQ

\* normalize_url that leaves the fragment in place
normalize_url_KeepFragment(url) ==
    LET parsed   == urlparse(url)
        stripped == rstrip(parsed.path, "/")
    IN  urlunparse([scheme   |-> parsed.scheme,
                    netloc   |-> Lower(parsed.netloc),
                    path     |-> IF Len(stripped) > 0 THEN stripped ELSE <<"/">>,
                    query    |-> parsed.query,
                    fragment |-> parsed.fragment])

normalize_url(url) ==
    LET parsed   == urlparse(url)
        netloc   == Lower(parsed.netloc)
        stripped == rstrip(parsed.path, "/")
        path     == IF Len(stripped) > 0 THEN stripped ELSE <<"/">>
    IN  urlunparse([scheme   |-> parsed.scheme,
                    netloc   |-> netloc,
                    path     |-> path,
                    query    |-> parsed.query,
                    fragment |-> <<>>])

\* the parts an enumerated web URL is written from
UrlSchemes   == {<<"h","t","t","p">>, <<"h","t","t","p","s">>}
UrlHosts     == {<<"h">>, <<"H">>, <<"H","h">>}
UrlPaths     == {<<>>} \cup {<<"/">> \o s : s \in SeqsUpTo({"/", "a"}, MaxPathLen - 1)}
UrlQueries   == {<<>>, <<"Q","/">>}
UrlFragments == {<<>>, <<"f">>}

UrlParts ==
    [scheme : UrlSchemes, host : UrlHosts, path : UrlPaths,
     query : UrlQueries, fragment : UrlFragments]

\* the URL as it is written: scheme://host path ?query #fragment
ComposeUrl(p) ==
    p.scheme \o <<":","/","/">> \o p.host \o p.path
    \o (IF Len(p.query) > 0 THEN <<"?">> \o p.query ELSE <<>>)
    \o (IF Len(p.fragment) > 0 THEN <<"#">> \o p.fragment ELSE <<>>)

\* the argument of one call; everything else stays idle
InitUrl ==
    /\ spc = "idle"
    /\ inp = ExampleArgs
    /\ res_app = None
    /\ res_report = None
    /\ variant = "none"
    /\ pc = "idle"
    /\ results = <<>>
    /\ seen_links = {}
    /\ articles = <<>>
    /\ gov_articles = <<>>
    /\ \E p \in UrlParts : norm = [pc |-> "input", parts |-> p, url |-> ComposeUrl(p)]
    /\ run = [pc |-> "idle"]
    /\ rpc = "idle"
    /\ post_i = 0
    /\ query_i = 0
    /\ pending = <<>>
    /\ seen_urls = {}
    /\ findings = <<>>
    /\ last = [outcome |-> "none"]
    /\ log = NoCalls
    /\ report = [pc |-> "idle"]
    /\ bq = [pc |-> "idle"]

\* one call of normalize_url
CallNormalizeUrl ==
    /\ norm.pc = "input"
    /\ norm' = [pc |-> "done", parts |-> norm.parts, url |-> norm.url,
                out |-> normalize_url(norm.url)]
    /\ UNCHANGED <<bq, report, score_vars, run_vars, run, rpc, post_i, query_i, pending,
                   seen_urls, findings, last, log>>

NextUrl == CallNormalizeUrl

SpecUrl == InitUrl /\ [][NextUrl]_vars

-----------------------------------------------------------------------------
(* Claims about normalize_url, checked under SpecUrl *)

\* p without its last character when that is a slash
WithoutOneTrailingSlash(p) ==
    IF Len(p) > 0 /\ p[Len(p)] = "/" THEN SubSeq(p, 1, Len(p) - 1) ELSE p

\* the longest prefix of p that does not end in a slash
WithoutTrailingSlashes(p) ==
    LET keep == {k \in 0..Len(p) : (k = 0 \/ p[k] # "/")
                                   /\ \A j \in (k + 1)..Len(p) : p[j] = "/"}
    IN  SubSeq(p, 1, CHOOSE k \in keep : TRUE)

-----------------------------------------------------------------------------
(* search_for_reposts (newsmonitor/search.py): the data                     *)
(*                                                                           *)
(* Post bodies, extracted texts, titles and snippets are kept by what the    *)
(* code reads of them: the number of words (len(text.split()), 0 for the     *)
(* empty string) and whether the TF-IDF tokenizer finds a token in them.     *)
(* Similarities and thresholds are counted in ten-thousandths.               *)

MaxPosts   == 2     \* posts of an enumerated run
MaxQueries == 2     \* queries built for a post of an enumerated run
MaxResults == 2     \* results the search provider returns over an enumerated run

DefaultThreshold  == 6000   \* similarity_threshold: float = 0.6
TargetRelief      == 1500   \* similarity_threshold - 0.15
ThresholdFloor    == 500    \* max(0.05, effective_threshold)
SnippetMargin     == 500    \* effective_threshold + 0.05
MinKeptWords      == 30     \* candidate_words < 30
MinFullWords      == 60     \* candidate_words < 60
LongPostWords     == 200    \* post_word_count >= 200
ShortPostQueryCap == 12     \* min(max_queries_per_post, 12)

TARGET_DOMAINS ==
    << <<"l","i","d","e","r","m","e","d","i","a",".","h","r">>, <<"l","i","d","e","r",".","m","e","d","i","a">>, <<"l","i","d","e","r",".","m","e","d","i","a",".","h","r">>,
       <<"t","p","o","r","t","a","l",".","h","r">>, <<"i","n","d","e","x",".","h","r">>, <<"n","1","i","n","f","o",".","h","r">>, <<"j","u","t","a","r","n","j","i",".","h","r">>,
       <<"v","e","c","e","r","n","j","i",".","h","r">>, <<"p","o","s","l","o","v","n","i",".","h","r">> >>

SELF_DOMAIN == <<"l","e","o","n","a","r","d","a","s","r","d","e","l","i","c",".","g","i","t","h","u","b",".","i","o">>

EmptyText == [words |-> 0, tok |-> FALSE]
Text(words, tok) == [words |-> words, tok |-> tok]

\* Python's truth value of a string
Truthy(t) == t.words > 0

\* a join that loses both texts
JoinText_Empty(a, b) == [words |-> 0, tok |-> FALSE]

\* " ".join(t for t in [a, b] if t)
JoinText(a, b) == [words |-> a.words + b.words, tok |-> a.tok \/ b.tok]

\* url.startswith(prefix)
StartsWith(url, prefix) ==
    Len(url) >= Len(prefix) /\ SubSeq(url, 1, Len(prefix)) = prefix

Raises == [kind |-> "raise"]
Float(v) == [kind |-> "float", value |-> v]

\* text_similarity: TfidfVectorizer.fit_transform raises ValueError (empty
\* vocabulary) when neither text has a token; a text without a token is a zero
\* row and its cosine with anything is 0; cosine is the cosine of two rows
\* that both have tokens
text_similarity(text_a, text_b, cosine) ==
    IF ~text_a.tok /\ ~text_b.tok THEN Raises
    ELSE IF ~text_a.tok \/ ~text_b.tok THEN Float(0)
    ELSE Float(cosine)

\* round(float(sim), 3), in thousandths
Round3(sim) == (sim + 5) \div 10

\* the tests of line 148 without the test of the title and the snippet
SkipsResult_NoEvidenceTest(url, matched_title, snippet) ==
    \/ url = <<>>
    \/ ~StartsWith(url, <<"h","t","t","p">>)

\* the tests of line 148 without the test of the scheme
SkipsResult_NoSchemeTest(url, matched_title, snippet) ==
    \/ url = <<>>
    \/ (~Truthy(matched_title) /\ ~Truthy(snippet))

\* if not url or not url.startswith("http") or (not matched_title and not snippet)
SkipsResult(url, matched_title, snippet) ==
    \/ url = <<>>
    \/ ~StartsWith(url, <<"h","t","t","p">>)
    \/ (~Truthy(matched_title) /\ ~Truthy(snippet))

\* if "leonardasrdelic.github.io" in url
IsSelf(url) == Contains(url, SELF_DOMAIN)

\* seen_urls.add that adds nothing
SeenAfter_NoAdd(seen, normalized_url) == seen

\* seen_urls.add(normalized_url)
SeenAfter(seen, normalized_url) == seen \cup {normalized_url}

\* any(d in url for d in TARGET_DOMAINS)
IsTargetDomain(url) ==
    \E i \in 1..Len(TARGET_DOMAINS) : Contains(url, TARGET_DOMAINS[i])

\* the fallback test with the bound of line 171 in place of that of line 173
UsesFallback_KeptWords(candidate_text, candidate_words) ==
    ~Truthy(candidate_text) \/ candidate_words < MinKeptWords

\* if not candidate_text or candidate_words < 60
UsesFallback(candidate_text, candidate_words) ==
    ~Truthy(candidate_text) \/ candidate_words < MinFullWords

\* effective_threshold, lines 190-191
EffectiveThreshold(similarity_threshold, is_target_domain) ==
    Max(ThresholdFloor,
        IF is_target_domain THEN similarity_threshold - TargetRelief
        ELSE similarity_threshold)

\* the decision that lets every target-domain candidate through
Dropped_TargetOutright(sim, sim_source, effective_threshold, is_target_domain) ==
    /\ ~is_target_domain
    /\ IF sim_source = "snippet" THEN sim < effective_threshold + SnippetMargin
       ELSE sim < effective_threshold

\* the `continue` of lines 194-200
Dropped(sim, sim_source, effective_threshold, is_target_domain) ==
    IF sim_source = "snippet" THEN sim < effective_threshold + SnippetMargin
    ELSE sim < effective_threshold

\* the dict of lines 203-211
Finding(post, url, matched_title, snippet, sim, sim_source) ==
    [source_post_title |-> post.title,
     source_post_url   |-> post.url,
     matched_title     |-> matched_title,
     matched_url       |-> url,
     snippet           |-> snippet,
     similarity        |-> Round3(sim),
     match_source      |-> sim_source]

\* the locals of the loop body, as they stand when the body is left
Locals(outcome, r, called, ok, is_target_domain, candidate_words, sim, sim_source, eff) ==
    [outcome |-> outcome, r |-> r, extraction_called |-> called, extraction_ok |-> ok,
     is_target_domain |-> is_target_domain, candidate_words |-> candidate_words,
     sim |-> sim, sim_source |-> sim_source, effective_threshold |-> eff]

\* a result that is left by one of the `continue`s of lines 148-155
Skipped(outcome, r, seen) ==
    [seen_urls |-> seen, emitted |-> <<>>, calls |-> <<>>, raised |-> FALSE,
     locals |-> Locals(outcome, r, FALSE, FALSE, FALSE, 0, 0, "none", 0)]

\* lines 158-212: the body for a result whose URL is new.  ext is what
\* extract_article_text does for the URL, cosine what the vectorizer makes of
\* two texts that both have tokens
Evaluate(post, r, ext, cosine, similarity_threshold, seen) ==
    LET url              == r.url
        is_target_domain == IsTargetDomain(url)
        extracted        == IF ext.ok THEN ext.text ELSE EmptyText
        candidate_words  == extracted.words
        candidate_text   == IF ~Truthy(extracted) \/ candidate_words < MinKeptWords
                            THEN EmptyText ELSE extracted
        fallback         == UsesFallback(candidate_text, candidate_words)
        fallback_text    == IF fallback THEN JoinText(r.name, r.snippet) ELSE EmptyText
        compared         == IF fallback
                            THEN IF Truthy(fallback_text)
                                 THEN text_similarity(post.text, fallback_text, cosine)
                                 ELSE Float(0)
                            ELSE text_similarity(post.text, candidate_text, cosine)
        sim_source       == IF fallback
                            THEN IF Truthy(fallback_text) THEN "snippet" ELSE "none"
                            ELSE IF ext.ok THEN "full" ELSE "none"
        sim              == IF compared.kind = "float" THEN compared.value ELSE 0
        eff              == EffectiveThreshold(similarity_threshold, is_target_domain)
        calls            == << [url |-> url, ok |-> ext.ok] >>
        outcome          == IF compared.kind = "raise" THEN "raised"
                            ELSE IF /\ ~Truthy(candidate_text) /\ ~Truthy(fallback_text)
                                    /\ ~Truthy(r.name) /\ ~Truthy(r.snippet)
                                 THEN "no_text"
                            ELSE IF Dropped(sim, sim_source, eff, is_target_domain)
                                 THEN "below"
                            ELSE "emitted"
    IN  [seen_urls |-> seen,
         emitted   |-> IF outcome = "emitted"
                       THEN << Finding(post, url, r.name, r.snippet, sim, sim_source) >>
                       ELSE <<>>,
         calls     |-> calls,
         raised    |-> outcome = "raised",
         locals    |-> Locals(outcome, r, TRUE, ext.ok, is_target_domain, candidate_words,
                              sim, sim_source, eff)]

\* lines 143-212: the body of the loop over the results of one search
LoopBody(post, r, ext, cosine, similarity_threshold, seen) ==
    IF SkipsResult(r.url, r.name, r.snippet) THEN Skipped("skipped_empty", r, seen)
    ELSE IF IsSelf(r.url) THEN Skipped("skipped_self", r, seen)
    ELSE LET normalized_url == normalize_url(r.url)
         IN  IF normalized_url \in seen THEN Skipped("skipped_seen", r, seen)
             ELSE Evaluate(post, r, ext, cosine, similarity_threshold,
                           SeenAfter(seen, normalized_url))

-----------------------------------------------------------------------------
(* search_for_reposts: the run *)

\* a post; nqueries is len(build_queries(post))
Post(title, url, text, nqueries) ==
    [title |-> title, url |-> url, text |-> text, nqueries |-> nqueries]

\* max_queries_for_post without the cap of short posts
MaxQueriesForPost_NoShortCap(post, max_queries_per_post) == max_queries_per_post

\* max_queries_for_post, line 131
MaxQueriesForPost(post, max_queries_per_post) ==
    IF post.text.words >= LongPostWords THEN max_queries_per_post
    ELSE Min(max_queries_per_post, ShortPostQueryCap)

\* len(build_queries(post)[:max_queries_for_post])
NumQueries(post, max_queries_per_post) ==
    Min(post.nqueries, MaxQueriesForPost(post, max_queries_per_post))

\* what extract_article_text can do for a URL: raise, or return a text
ExtractFails == [ok |-> FALSE, text |-> EmptyText]
ExtractReturns(text) == [ok |-> TRUE, text |-> text]

\* URLs a search result can carry
UrlTarget      == <<"h","t","t","p","s",":","/","/","i","n","d","e","x",".","h","r","/","a">>
UrlTargetSlash == <<"h","t","t","p","s",":","/","/","i","n","d","e","x",".","h","r","/","a","/">>
UrlPathMention == <<"h","t","t","p","s",":","/","/","b","l","o","g",".","h","r","/","i","n","d","e","x",".","h","r">>
UrlOther       == <<"h","t","t","p","s",":","/","/","b","l","o","g",".","h","r","/","a">>
UrlOtherCase   == <<"h","t","t","p","s",":","/","/","B","l","o","g",".","h","r","/","a","#","x">>
UrlSelf        == <<"h","t","t","p","s",":","/","/","l","e","o","n","a","r","d","a","s","r","d","e","l","i","c",".","g","i","t","h","u","b",".","i","o","/","a">>
UrlFtp         == <<"f","t","p",":","/","/","i","n","d","e","x",".","h","r","/","a">>
UrlAbsent      == <<>>

CandidateUrls == {UrlTarget, UrlTargetSlash, UrlPathMention, UrlOther, UrlOtherCase,
                  UrlSelf, UrlFtp, UrlAbsent}

\* titles: absent, "-" and a title of five words; snippets: absent and one of
\* twenty words
CandidateTitles   == {EmptyText, Text(1, FALSE), Text(5, TRUE)}
CandidateSnippets == {EmptyText, Text(20, TRUE)}

SearchResult(url, name, snippet) == [url |-> url, name |-> name, snippet |-> snippet]

CandidateResults ==
    {SearchResult(u, t, s) : u \in CandidateUrls, t \in CandidateTitles,
                             s \in CandidateSnippets}

\* extraction outcomes around the two word bounds of the body
CandidateExtracts ==
    {ExtractFails, ExtractReturns(EmptyText), ExtractReturns(Text(MinFullWords, FALSE))}
    \cup {ExtractReturns(Text(w, TRUE)) :
              w \in {MinKeptWords - 1, MinKeptWords, MinFullWords - 1, MinFullWords}}

\* cosines around the thresholds that 0.1 and 0.6 lead to
CandidateSims ==
    {0, 499, 500, 999, 1000, 1499, 1500, 4499, 4500, 4999, 5000,
     5999, 6000, 6499, 6500, 10000}

CandidateThresholds == {1000, DefaultThreshold}

\* post bodies: a long one, a short one, one without a token
CandidatePostTexts == {Text(LongPostWords, TRUE), Text(40, TRUE), Text(40, FALSE)}

\* the arguments of a run and what the search provider, the extractor and the
\* vectorizer can answer during it
Run(blog_posts, similarity_threshold, max_queries_per_post, env) ==
    [blog_posts |-> blog_posts, similarity_threshold |-> similarity_threshold,
     max_queries_per_post |-> max_queries_per_post, env |-> env]

\* the scorer, the collection run and normalize_url are not running
OthersIdle ==
    /\ spc = "idle"
    /\ inp = ExampleArgs
    /\ res_app = None
    /\ res_report = None
    /\ variant = "none"
    /\ pc = "idle"
    /\ results = <<>>
    /\ seen_links = {}
    /\ articles = <<>>
    /\ gov_articles = <<>>
    /\ norm = [pc |-> "idle"]
    /\ report = [pc |-> "idle"]
    /\ bq = [pc |-> "idle"]

\* lines 126-127: findings = [], seen_urls = set(), before the first post
EnterRun ==
    /\ rpc = "query"
    /\ post_i = 1
    /\ query_i = 1
    /\ pending = <<>>
    /\ seen_urls = {}
    /\ findings = <<>>
    /\ last = [outcome |-> "none"]
    /\ log = NoCalls

\* a run over one post with one query, whose search returns at most one result
\* of any kind
InitCandidate ==
    /\ OthersIdle
    /\ \E text \in CandidatePostTexts, thr \in CandidateThresholds :
          run = Run(<< Post(<<"t","1">>, <<"u","1">>, text, 1) >>, thr, 1, "candidate")
    /\ EnterRun

\* results of the runs over several posts and queries: two spellings of one
\* address, a second address, with and without a title
RunResults ==
    {SearchResult(UrlOther, Text(5, TRUE), EmptyText),
     SearchResult(UrlOtherCase, Text(5, TRUE), EmptyText),
     SearchResult(UrlTarget, Text(5, TRUE), EmptyText)}

\* what serper_search can return, extract_article_text do and the vectorizer
\* compute in a run
Pages ==
    IF run.env = "candidate" THEN {<<>>} \cup {<<r>> : r \in CandidateResults}
    ELSE IF run.env = "queries"
         THEN {<<>>, << SearchResult(UrlOther, Text(5, TRUE), EmptyText) >>}
    ELSE IF run.env = "shared"
         THEN SeqsUpTo({SearchResult(UrlOther, Text(5, TRUE), EmptyText),
                        SearchResult(UrlOtherCase, Text(5, TRUE), EmptyText)}, 1)
    ELSE SeqsUpTo(RunResults, MaxResults)

Extracts ==
    IF run.env = "candidate" THEN CandidateExtracts
    ELSE IF run.env = "queries" THEN {ExtractFails}
    ELSE IF run.env = "shared" THEN {ExtractReturns(Text(MinFullWords, TRUE))}
    ELSE {ExtractFails, ExtractReturns(Text(MinFullWords, TRUE))}

Sims ==
    IF run.env = "candidate" THEN CandidateSims
    ELSE IF run.env = "shared" THEN {0, 10000}
    ELSE {10000}

RunPosts(n) ==
    [i \in 1..n |-> Post(<<"t", ToString(i)>>, <<"u", ToString(i)>>,
                         Text(LongPostWords, TRUE), MaxQueries)]

\* a run over up to MaxPosts posts of MaxQueries queries each
InitRepost ==
    /\ OthersIdle
    /\ \E n \in 1..MaxPosts :
          run = Run(RunPosts(n), DefaultThreshold, MaxQueries, "run")
    /\ EnterRun

CurrentPost == run.blog_posts[post_i]

InQueries ==
    /\ rpc = "query"
    /\ post_i <= Len(run.blog_posts)
    /\ query_i <= NumQueries(CurrentPost, run.max_queries_per_post)

\* a failing search that leaves the function
SearchFails_Aborts ==
    /\ InQueries
    /\ log' = [log EXCEPT !.searches = @ + 1, !.failed = @ + 1]
    /\ rpc' = "raised"
    /\ UNCHANGED <<bq, report, score_vars, run_vars, norm, run, post_i, query_i, pending,
                   seen_urls, findings, last>>

\* lines 135-138: serper_search raises, `continue`
SearchFails ==
    /\ InQueries
    /\ log' = [log EXCEPT !.searches = @ + 1, !.failed = @ + 1]
    /\ query_i' = query_i + 1
    /\ UNCHANGED <<bq, report, score_vars, run_vars, norm, run, rpc, post_i, pending,
                   seen_urls, findings, last>>

\* lines 135-141: serper_search returns a page of results, time.sleep(0.3)
SearchReturns ==
    /\ InQueries
    /\ \E page \in Pages :
          /\ Len(page) <= MaxResults - log.returned
          /\ pending' = page
          /\ log' = [log EXCEPT !.searches = @ + 1, !.sleeps = @ + 1,
                                !.returned = @ + Len(page)]
    /\ rpc' = "results"
    /\ UNCHANGED <<bq, report, score_vars, run_vars, norm, run, post_i, query_i,
                   seen_urls, findings, last>>

\* lines 142-212: one pass of the loop over the results; an exception of
\* text_similarity leaves the function
ProcessResult ==
    /\ rpc = "results"
    /\ pending # <<>>
    /\ \E ext \in Extracts, cosine \in Sims :
          LET after == LoopBody(CurrentPost, Head(pending), ext, cosine,
                                run.similarity_threshold, seen_urls)
          IN  /\ seen_urls' = after.seen_urls
              /\ findings' = findings \o after.emitted
              /\ log' = [log EXCEPT !.extracted = @ \o after.calls]
              /\ last' = after.locals
              /\ rpc' = IF after.raised THEN "raised" ELSE "results"
    /\ pending' = Tail(pending)
    /\ UNCHANGED <<bq, report, score_vars, run_vars, norm, run, post_i, query_i>>

\* the loop over the results is over: the next query
NextQuery ==
    /\ rpc = "results"
    /\ pending = <<>>
    /\ rpc' = "query"
    /\ query_i' = query_i + 1
    /\ UNCHANGED <<bq, report, score_vars, run_vars, norm, run, post_i, pending,
                   seen_urls, findings, last, log>>

\* the loop over the queries of a post is over: the next post
NextPost ==
    /\ rpc = "query"
    /\ post_i <= Len(run.blog_posts)
    /\ query_i > NumQueries(CurrentPost, run.max_queries_per_post)
    /\ post_i' = post_i + 1
    /\ query_i' = 1
    /\ UNCHANGED <<bq, report, score_vars, run_vars, norm, run, rpc, pending,
                   seen_urls, findings, last, log>>

\* line 214: return findings
ReturnFindings ==
    /\ rpc = "query"
    /\ post_i > Len(run.blog_posts)
    /\ rpc' = "done"
    /\ UNCHANGED <<bq, report, score_vars, run_vars, norm, run, post_i, query_i, pending,
                   seen_urls, findings, last, log>>

NextRepost ==
    \/ SearchFails
    \/ SearchReturns
    \/ ProcessResult
    \/ NextQuery
    \/ NextPost
    \/ ReturnFindings

SpecCandidate == InitCandidate /\ [][NextRepost]_vars

SpecRepost == InitRepost /\ [][NextRepost]_vars

DefaultMaxQueries == 25     \* max_queries_per_post: int = 25

\* a run over one post, long or short, with fewer or more built queries than
\* the cap, whose searches fail, return nothing or return one result
InitQueries ==
    /\ OthersIdle
    /\ \E w \in {LongPostWords - 1, LongPostWords},
          nq \in {0, 3, ShortPostQueryCap + 1},
          mq \in {2, ShortPostQueryCap + 1, DefaultMaxQueries} :
          run = Run(<< Post(<<"t","1">>, <<"u","1">>, Text(w, TRUE), nq) >>,
                    DefaultThreshold, mq, "queries")
    /\ EnterRun

SpecQueries == InitQueries /\ [][NextRepost]_vars

\* a run over up to MaxPosts posts of one query each, whose searches return two
\* spellings of one address that the vectorizer finds similar or not
InitShared ==
    /\ OthersIdle
    /\ \E n \in 1..MaxPosts :
          run = Run([i \in 1..n |-> Post(<<"t", ToString(i)>>, <<"u", ToString(i)>>,
                                         Text(LongPostWords, TRUE), 1)],
                    DefaultThreshold, DefaultMaxQueries, "shared")
    /\ EnterRun

SpecShared == InitShared /\ [][NextRepost]_vars

-----------------------------------------------------------------------------
(* What the claims about search_for_reposts speak of *)

\* the host of the URL contains one of the target domains
HostIsTarget(url) ==
    \E i \in 1..Len(TARGET_DOMAINS) : Contains(urlparse(url).netloc, TARGET_DOMAINS[i])

\* the last result reached the threshold decision
Decided == last.outcome \in {"below", "emitted"}

\* the similarity the threshold policy asks of a candidate
Needed(similarity_threshold, is_target, basis) ==
    LET relaxed == similarity_threshold - TargetRelief
        eff     == IF is_target
                   THEN (IF relaxed < ThresholdFloor THEN ThresholdFloor ELSE relaxed)
                   ELSE similarity_threshold
    IN  IF basis = "snippet" THEN eff + SnippetMargin ELSE eff

\* the URL is absent, has no web scheme or is on the excluded self-domain
NotEligible(url) ==
    \/ url = <<>>
    \/ urlparse(url).scheme \notin {<<"h","t","t","p">>, <<"h","t","t","p","s">>}
    \/ Contains(urlparse(url).netloc, SELF_DOMAIN)

IsPrefix(s, t) == Len(s) <= Len(t) /\ SubSeq(t, 1, Len(s)) = s

-----------------------------------------------------------------------------
(* Claims about a run of search_for_reposts, checked under SpecRepost *)

\* C12: no two findings of a run have matched URLs with the same canonical
\* form, whatever the searches return, also when one address comes back from
\* several queries or for several posts
C12_CanonicalUrlsUnique ==
    \A i \in 1..Len(findings) : \A j \in 1..Len(findings) :
        i # j => normalize_url(findings[i].matched_url) # normalize_url(findings[j].matched_url)

\* the second post's search returned another spelling of the address already
\* matched for the first post
C12_Witness ==
    /\ post_i = 2
    /\ last.outcome = "skipped_seen"
    /\ last.r.url = UrlOtherCase
    /\ Len(findings) = 1
    /\ findings[1].matched_url = UrlOther
    /\ findings[1].source_post_url = run.blog_posts[1].url

\* C15: a failing search leaves the findings as they are and the run goes on
\* with the next query; a failing extraction leaves the candidate without
\* extracted text; no step of the run loses a finding or leaves the function
\* by an exception
C15_FailuresContained ==
    [][ /\ (log'.failed > log.failed =>
               /\ findings' = findings
               /\ rpc' = "query" /\ post_i' = post_i /\ query_i' = query_i + 1)
        /\ (/\ Len(log'.extracted) > Len(log.extracted)
            /\ ~log'.extracted[Len(log'.extracted)].ok
            => /\ last'.candidate_words = 0
               /\ last'.sim_source # "full")
        /\ IsPrefix(findings, findings')
        /\ rpc' # "raised" ]_vars

\* a run has returned two findings after a failed search and a failed
\* extraction, the second finding on its snippet
C15_Witness ==
    /\ rpc = "done"
    /\ log.failed >= 1
    /\ \E k \in 1..Len(log.extracted) : ~log.extracted[k].ok
    /\ Len(findings) = 2
    /\ findings[2].match_source = "snippet"

-----------------------------------------------------------------------------
(* Claims about one candidate, checked under SpecCandidate *)

\* C13: a finding is emitted only when the similarity reaches the threshold
\* asked of it: similarityThreshold - 0.15, at least 0.05, for a candidate
\* whose host is a target domain, similarityThreshold for any other, and 0.05
\* more on the snippet basis
C13_ThresholdPolicy ==
    last.outcome = "emitted" =>
        last.sim >= Needed(run.similarity_threshold, HostIsTarget(last.r.url),
                           last.sim_source)

\* C14 as the spec states it: a target-domain candidate that reaches the
\* threshold decision is emitted, whatever its similarity
C14_TargetAcceptedOutright ==
    (Decided /\ HostIsTarget(last.r.url)) => last.outcome = "emitted"

\* C14 as the code has it: a target-domain candidate that reaches the threshold
\* decision is emitted exactly when its similarity reaches the relaxed
\* threshold (0.05 more on the snippet basis)
C14_TargetNeedsRelaxedThreshold ==
    (Decided /\ HostIsTarget(last.r.url)) =>
        (last.outcome = "emitted"
         <=> last.sim >= Needed(run.similarity_threshold, TRUE, last.sim_source))

\* a target-domain candidate with a similarity between the relaxed and the
\* full threshold was emitted on its full text
C14_Witness ==
    /\ last.outcome = "emitted"
    /\ last.r.url = UrlTarget
    /\ last.sim_source = "full"
    /\ last.sim = 4500
    /\ run.similarity_threshold = DefaultThreshold
    /\ Len(findings) = 1

\* C16: a comparison with a text that is empty or has no token never raises
\* and gives 0
C16_DegenerateGivesZero ==
    /\ rpc # "raised"
    /\ (Decided /\ ~run.blog_posts[1].text.tok) => last.sim = 0

\* C17 as the spec states it: the basis is "full" exactly when the extraction
\* succeeded with at least 30 words, "snippet" otherwise
C17_FullFrom30Words ==
    Decided =>
        IF last.extraction_ok /\ last.candidate_words >= 30
        THEN last.sim_source = "full" ELSE last.sim_source = "snippet"

\* C17 as the code has it: the basis is "full" exactly when the extraction
\* succeeded with at least 60 words, "snippet" otherwise
C17_FullFrom60Words ==
    Decided =>
        IF last.extraction_ok /\ last.candidate_words >= 60
        THEN last.sim_source = "full" ELSE last.sim_source = "snippet"

\* an extracted text of 59 words was set aside for the snippet
C17_Witness ==
    /\ Decided
    /\ last.extraction_ok
    /\ last.candidate_words = 59
    /\ last.sim_source = "snippet"

\* C18: a result without title and without snippet is discarded before any
\* extraction and before the domain is looked at, also on a target domain
C18_NoEvidenceDiscarded ==
    (last.outcome # "none" /\ ~Truthy(last.r.name) /\ ~Truthy(last.r.snippet)) =>
        /\ last.outcome = "skipped_empty"
        /\ ~last.extraction_called
        /\ findings = <<>>

\* a target-domain result without title and snippet has been discarded
C18_Witness ==
    /\ last.outcome = "skipped_empty"
    /\ last.r = SearchResult(UrlTarget, EmptyText, EmptyText)
    /\ rpc = "done"

\* C19: a result counts as a target-domain candidate exactly when the host of
\* its URL contains a target domain
C19_TargetByHost ==
    last.outcome \in {"raised", "no_text", "below", "emitted"} =>
        (last.is_target_domain <=> HostIsTarget(last.r.url))

-----------------------------------------------------------------------------
(* Claims about the searches of a run *)

\* the number of queries the claim lets a post send
QueriesSent(post, max_queries_per_post) ==
    LET cap == IF post.text.words >= 200 THEN max_queries_per_post
               ELSE IF max_queries_per_post < 12 THEN max_queries_per_post ELSE 12
    IN  IF post.nqueries < cap THEN post.nqueries ELSE cap

RECURSIVE SentBefore(_)
\* the queries sent for the posts before the i-th
SentBefore(i) ==
    IF i <= 1 THEN 0
    ELSE SentBefore(i - 1) + QueriesSent(run.blog_posts[i - 1], run.max_queries_per_post)

\* C21: the searches made so far are the queries of the earlier posts, each
\* sent once and cut at the cap (max_queries_per_post, and 12 for a body of
\* fewer than 200 words), and the queries of the current post up to the
\* current one, each sent once, failed or not
C21_FirstQueriesOnce ==
    rpc \in {"query", "results", "done"} =>
        /\ log.searches = SentBefore(post_i)
                          + (IF rpc = "results" THEN query_i ELSE query_i - 1)
        /\ (post_i <= Len(run.blog_posts) =>
               query_i <= QueriesSent(CurrentPost, run.max_queries_per_post) + 1)

\* a short post with thirteen built queries and the default maximum has sent
\* twelve of them, some of which failed
C21_Witness ==
    /\ rpc = "done"
    /\ run.blog_posts[1].text.words = 199
    /\ run.blog_posts[1].nqueries = 13
    /\ run.max_queries_per_post = 25
    /\ log.searches = 12
    /\ log.failed = 3

\* C22: between two consecutive searches of a run there is a pacing delay,
\* whatever the first of them did
C22_DelayBetweenSearches ==
    log.searches > 0 => log.sleeps >= log.searches - 1

\* C26: no two extraction calls of a run are for URLs with the same canonical
\* form, and a result whose canonical URL is already seen causes no extraction
\* call and no comparison
C26_OneExtractionPerUrl ==
    /\ \A i \in 1..Len(log.extracted) : \A j \in 1..Len(log.extracted) :
          i # j => normalize_url(log.extracted[i].url) # normalize_url(log.extracted[j].url)
    /\ last.outcome = "skipped_seen" =>
          ~last.extraction_called /\ last.sim_source = "none"

\* a later query of the same post returned another spelling of an address
\* that had been extracted once
C26_Witness ==
    /\ post_i = 1
    /\ query_i = 2
    /\ last.outcome = "skipped_seen"
    /\ last.r.url = UrlOther
    /\ Len(log.extracted) = 1
    /\ log.extracted[1].url = UrlOtherCase

\* C27: a URL is in seen_urls when it is evaluated, seen_urls never loses a
\* URL, and no step adds a finding for a URL that was already in seen_urls
C27_SeenSharedAcrossPosts ==
    [][ /\ seen_urls \subseteq seen_urls'
        /\ (last'.outcome # "none" /\ last'.extraction_called
            => normalize_url(last'.r.url) \in seen_urls')
        /\ \A k \in (Len(findings) + 1)..Len(findings') :
              normalize_url(findings'[k].matched_url) \notin seen_urls ]_vars

\* an address rejected for the first post came back for the second post and
\* was skipped
C27_Witness ==
    /\ post_i = 2
    /\ last.outcome = "skipped_seen"
    /\ findings = <<>>
    /\ Len(log.extracted) = 1
    /\ rpc = "results"

\* C28: every finding has the basis "full" or "snippet", and no candidate
\* reaches the threshold decision with the basis "none"
C28_BasisNeverNone ==
    /\ \A k \in 1..Len(findings) : findings[k].match_source \in {"full", "snippet"}
    /\ Decided => last.sim_source \in {"full", "snippet"}

\* a candidate whose extraction failed was decided on its title and snippet
C28_Witness ==
    /\ Decided
    /\ ~last.extraction_ok
    /\ last.sim_source = "snippet"
    /\ Len(findings) = 1
    /\ findings[1].match_source = "snippet"

-----------------------------------------------------------------------------
(* Claims about the date range of the RSS batch, checked under Spec *)

\* the items of the RSS batch, while it is collected and once it is returned
RssItems ==
    {results[i] : i \in {k \in 1..Len(results) : results[k].source \in RssSources}}
    \cup {articles[i] : i \in {k \in 1..Len(articles) : articles[k].source \in RssSources}}

\* C25: every item of the RSS batch is published on a day from date_from to
\* date_to, both included, so its age at date_to is not negative
C25_RssItemsInRange ==
    \A a \in RssItems :
        LET d == a.published_at \div TicksPerDay
        IN  date_from <= d /\ d <= date_to /\ date_to - d >= 0

\* the returned RSS batch has an item of the first and one of the last day of
\* the range
C25_Witness ==
    /\ pc = "gov"
    /\ Len(articles) = 2
    /\ \E a \in RssItems : a.published_at \div TicksPerDay = date_from
    /\ \E a \in RssItems : a.published_at \div TicksPerDay = date_to

-----------------------------------------------------------------------------
(* build_html_report (report.py): the buckets of the profiles *)

MaxArticles == 3    \* articles of an enumerated report

\* the profiles in the order of the dict, each with a selection of its keywords
KEYWORD_PROFILES ==
    << [profile |-> "Porezi i proracun", kws |-> << <<"p","d","v">> >>],
       [profile |-> "Mirovine i socijalna politika", kws |-> << <<"m","i","n","i","m","a","l","n","a"," ","p","l","a","c","a">> >>],
       [profile |-> "Klimatske promjene, kruzna ekonomija i energija",
        kws |-> << <<"c","o","2">>, <<"e","u"," ","e","t","s">> >>],
       [profile |-> "Subvencije i drzavne potpore", kws |-> << <<"s","u","b","v","e","n","c","i","j","e">> >>],
       [profile |-> "Europodrucje i monetarna politika", kws |-> << <<"e","c","b">> >>],
       [profile |-> "Geopolitika i sigurnost", kws |-> << <<"r","a","t">>, <<"n","a","t","o">> >> ] >>

Ostalo == "Ostalo"

\* the keys of `buckets`, in the order of the dict
BucketNames ==
    [i \in 1..(Len(KEYWORD_PROFILES) + 1) |->
        IF i <= Len(KEYWORD_PROFILES) THEN KEYWORD_PROFILES[i].profile ELSE Ostalo]

\* hits = sum(1 for k in kws if k.lower() in text)
ProfileHits(kws, text) ==
    Cardinality({k \in 1..Len(kws) : Contains(text, Lower(kws[k]))})

\* the loop over the profiles that keeps the last profile with a hit
TargetProfile_LastMatch(text, from) ==
    LET hit == {i \in 1..Len(KEYWORD_PROFILES) : ProfileHits(KEYWORD_PROFILES[i].kws, text) >= 1}
    IN  IF hit = {} THEN ""
        ELSE KEYWORD_PROFILES[CHOOSE i \in hit : \A j \in hit : j <= i].profile

\* lines 479-484: the first profile, from the given one on, with a hit; "" is
\* target_profile = None
RECURSIVE TargetProfile(_, _)
TargetProfile(text, from) ==
    IF from > Len(KEYWORD_PROFILES) THEN ""
    ELSE IF ProfileHits(KEYWORD_PROFILES[from].kws, text) >= 1
         THEN KEYWORD_PROFILES[from].profile
    ELSE TargetProfile(text, from + 1)

\* text = (art.get("title", "") + " " + art.get("summary", "")).lower()
ArticleText(art) == Lower(art.title \o <<" ">> \o art.summary)

\* lines 485-488
BucketOf(art) ==
    LET target_profile == TargetProfile(ArticleText(art), 1)
    IN  IF target_profile # "" THEN target_profile ELSE Ostalo

RECURSIVE SumLen(_, _)
\* sum(len(v) for v in buckets.values())
SumLen(buckets, i) ==
    IF i > Len(BucketNames) THEN 0
    ELSE Len(buckets[BucketNames[i]]) + SumLen(buckets, i + 1)

Article(title, summary) == [title |-> title, summary |-> summary]

\* articles with a keyword of one profile, of two profiles, with a keyword
\* that spans title and summary, and with none
ReportArticles ==
    {Article(<<"P","D","V">>, <<>>),
     Article(<<"c","o","2"," ","p","d","v">>, <<>>),
     Article(<<"E","U">>, <<"e","t","s">>),
     Article(<<"R","a","t">>, <<"e","c","b">>),
     Article(<<"x">>, <<>>)}

\* lines 475-476: empty buckets; everything else stays idle
InitReport ==
    /\ spc = "idle"
    /\ inp = ExampleArgs
    /\ res_app = None
    /\ res_report = None
    /\ variant = "none"
    /\ pc = "idle"
    /\ results = <<>>
    /\ seen_links = {}
    /\ articles = <<>>
    /\ gov_articles = <<>>
    /\ norm = [pc |-> "idle"]
    /\ run = [pc |-> "idle"]
    /\ rpc = "idle"
    /\ post_i = 0
    /\ query_i = 0
    /\ pending = <<>>
    /\ seen_urls = {}
    /\ findings = <<>>
    /\ last = [outcome |-> "none"]
    /\ log = NoCalls
    /\ bq = [pc |-> "idle"]
    /\ \E arts \in SeqsUpTo(ReportArticles, MaxArticles) :
          report = [pc |-> "bucketing", articles |-> arts, i |-> 1,
                    buckets |-> [b \in {BucketNames[k] : k \in 1..Len(BucketNames)} |-> <<>>],
                    total |-> 0]

\* lines 477-488: one pass of the loop over the articles
BucketArticle ==
    /\ report.pc = "bucketing"
    /\ report.i <= Len(report.articles)
    /\ LET art == report.articles[report.i]
       IN  report' = [report EXCEPT !.buckets[BucketOf(art)] = Append(@, art),
                                    !.i = @ + 1]
    /\ UNCHANGED <<bq, score_vars, run_vars, repost_vars>>

\* lines 494-495: the total of the report
ReportTotal ==
    /\ report.pc = "bucketing"
    /\ report.i > Len(report.articles)
    /\ report' = [report EXCEPT !.total = SumLen(report.buckets, 1), !.pc = "done"]
    /\ UNCHANGED <<bq, score_vars, run_vars, repost_vars>>

NextReport == BucketArticle \/ ReportTotal

SpecReport == InitReport /\ [][NextReport]_vars

-----------------------------------------------------------------------------
(* Claims about build_html_report, checked under SpecReport *)

\* a keyword of the k-th profile occurs in the lower-cased title + " " + summary
ProfileMatches(k, art) ==
    \E n \in 1..Len(KEYWORD_PROFILES[k].kws) :
        OccursCI(art.title \o <<" ">> \o art.summary, KEYWORD_PROFILES[k].kws[n])

\* the bucket the claim gives an article
ExpectedBucket(art) ==
    IF \E k \in 1..Len(KEYWORD_PROFILES) : ProfileMatches(k, art)
    THEN KEYWORD_PROFILES[CHOOSE k \in 1..Len(KEYWORD_PROFILES) :
             ProfileMatches(k, art) /\ \A j \in 1..(k - 1) : ~ProfileMatches(j, art)].profile
    ELSE Ostalo

ExpectedIn(b, art) == ExpectedBucket(art) = b

\* C29: each bucket holds, in their order, exactly the articles whose first
\* matching profile it is ("Ostalo": those that match none), so every article
\* is in one bucket only, and the total is the number of articles
C29_FirstProfileWins ==
    report.pc = "done" =>
        /\ \A k \in 1..Len(BucketNames) :
              report.buckets[BucketNames[k]] =
                  SelectSeq(report.articles, LAMBDA a : ExpectedIn(BucketNames[k], a))
        /\ report.total = Len(report.articles)

\* a report of an article that matches two profiles and of one that matches
\* none
C29_Witness ==
    /\ report.pc = "done"
    /\ report.articles = << Article(<<"R","a","t">>, <<"e","c","b">>), Article(<<"x">>, <<>>) >>
    /\ Len(report.buckets["Europodrucje i monetarna politika"]) = 1
    /\ report.buckets["Geopolitika i sigurnost"] = <<>>
    /\ Len(report.buckets[Ostalo]) = 1

-----------------------------------------------------------------------------
(* extract_keywords and build_queries (newsmonitor/search.py) *)

MaxTailWords == 3   \* words enumerated at the end of a post body

WindowWords  == 120 \* window_words: int = 120
TopKeywords  == 8   \* top_n: int = 8
MinKeywordLen == 3  \* len(w) > 3
IntroWords   == 16  \* intro_words[:16]
MinQuoteWords == 6  \* len(...split()) > 6
MaxSentences == 3   \* sentences[:3]

Letters == {LowerChars[i] : i \in 1..Len(LowerChars)}
Whitespace == {" ", "\n"}

\* the elements of a set of numbers in ascending order
SortedSeq(S) ==
    [k \in 1..Cardinality(S) |-> CHOOSE x \in S : Cardinality({y \in S : y < x}) = k - 1]

\* the maximal runs of characters of s[lo..hi] for which inRun holds, in order
RECURSIVE RunsIn(_, _, _, _)
RunsIn(s, inRun, lo, hi) ==
    IF lo > hi THEN <<>>
    ELSE IF lo = hi THEN (IF inRun[lo] THEN << <<s[lo]>> >> ELSE <<>>)
    ELSE LET mid   == (lo + hi) \div 2
             left  == RunsIn(s, inRun, lo, mid)
             right == RunsIn(s, inRun, mid + 1, hi)
         IN  IF inRun[mid] /\ inRun[mid + 1]
             THEN SubSeq(left, 1, Len(left) - 1)
                  \o << left[Len(left)] \o right[1] >> \o Tail(right)
             ELSE left \o right

RunsAt(s, inRun) == RunsIn(s, inRun, 1, Len(s))

\* s.split()
SplitWords(s) == RunsAt(s, [i \in 1..Len(s) |-> s[i] \notin Whitespace])

\* re.findall(r"[A-Za-z]+", s) of a lower-cased s
FindWords(s) == RunsAt(s, [i \in 1..Len(s) |-> s[i] \in Letters])

\* s.split(c)
SplitOn(s, c) ==
    LET at == SortedSeq({i \in 1..Len(s) : s[i] = c})
    IN  [k \in 1..(Len(at) + 1) |->
            SubSeq(s, IF k = 1 THEN 1 ELSE at[k - 1] + 1,
                      IF k = Len(at) + 1 THEN Len(s) ELSE at[k] - 1)]

\* s.strip()
Strip(s) ==
    LET solid == {i \in 1..Len(s) : s[i] \notin Whitespace}
    IN  IF solid = {} THEN <<>>
        ELSE SubSeq(s, CHOOSE i \in solid : \A j \in solid : i <= j,
                       CHOOSE i \in solid : \A j \in solid : j <= i)

\* s.replace("\n", " ")
ReplaceNewlines(s) == [i \in 1..Len(s) |-> IF s[i] = "\n" THEN " " ELSE s[i]]

\* s[:n]
Take(s, n) == SubSeq(s, 1, Min(n, Len(s)))

\* " ".join(words)
RECURSIVE JoinWords(_)
JoinWords(words) ==
    IF Len(words) = 0 THEN <<>>
    ELSE IF Len(words) = 1 THEN words[1]
    ELSE LET half == Len(words) \div 2
         IN  JoinWords(SubSeq(words, 1, half)) \o <<" ">>
             \o JoinWords(SubSeq(words, half + 1, Len(words)))

StopWords ==
    {<<"i">>, <<"u">>, <<"n","a">>, <<"z","a">>, <<"s","e">>, <<"j","e">>, <<"s","u">>, <<"o","d">>,
     <<"d","o">>, <<"d","a">>, <<"s">>, <<"s","a">>, <<"o">>, <<"k","a","o">>, <<"k","o","j","i">>, <<"s","t","o">>,
     <<"k","a","k","o">>, <<"c","e">>, <<"c","e","s">>, <<"c","e","u">>, <<"s","a","m">>, <<"s","i">>, <<"s","m","o">>,
     <<"s","t","e">>, <<"b","i","t","i">>, <<"b","i","l","a">>, <<"b","i","o">>, <<"b","i","l","o">>, <<"t","e">>, <<"a","l","i">>,
     <<"i","l","i">>, <<"p","a">>, <<"d","o","k">>, <<"n","o">>, <<"n","e">>, <<"n","i","j","e">>, <<"n","i","s","u">>,
     <<"m","o","z","e">>, <<"m","o","g","u">>, <<"n","j","i","h">>, <<"n","j","i","h","o","v">>, <<"o","v","a">>, <<"o","v","a","j">>,
     <<"o","v","o">>, <<"t","u">>, <<"t","a","m","o">>, <<"v","i","s","e">>, <<"m","a","n","j","e">>}

\* the number of times w is in words
Occurrences(words, w) == Cardinality({i \in 1..Len(words) : words[i] = w})

\* the keys of Counter(words): the distinct words in first-seen order
CounterKeys(words) ==
    LET firsts == SortedSeq({i \in 1..Len(words) : \A j \in 1..(i - 1) : words[j] # words[i]})
    IN  [k \in 1..Len(firsts) |-> words[firsts[k]]]

\* most_common without the ranking: the keys as they were first seen
MostCommon_FirstSeenOnly(words, top_n) == Take(CounterKeys(words), top_n)

\* one step of a stable descending sort by count
InsertByCount(sorted, w, words) ==
    LET before == {i \in 1..Len(sorted) :
                      Occurrences(words, sorted[i]) >= Occurrences(words, w)}
        n == Cardinality(before)
    IN  SubSeq(sorted, 1, n) \o <<w>> \o SubSeq(sorted, n + 1, Len(sorted))

RECURSIVE SortByCount(_, _)
SortByCount(keys, words) ==
    IF Len(keys) = 0 THEN <<>>
    ELSE InsertByCount(SortByCount(SubSeq(keys, 1, Len(keys) - 1), words),
                       keys[Len(keys)], words)

\* [w for w, _ in Counter(words).most_common(top_n)]
MostCommon(words, top_n) == Take(SortByCount(CounterKeys(words), words), top_n)

\* extract_keywords(text), lines 40-54
extract_keywords(text) ==
    LET words    == Take(FindWords(Lower(text)), WindowWords)
        filtered == SelectSeq(words, LAMBDA w : w \notin StopWords /\ Len(w) > MinKeywordLen)
    IN  MostCommon(filtered, TopKeywords)

Quote == "\""
Quoted(s) == <<Quote>> \o s \o <<Quote>>
WithAuthor(s) == Quoted(s) \o <<" ">> \o Quoted(<<"L","e","o","n","a","r","d","a"," ","S","r","d","e","l","i","c">>)

\* lines 86-90: the queries of the title
TitleQueries(title) ==
    LET title_clean == Strip(ReplaceNewlines(title))
    IN  IF Len(title_clean) > 0 THEN << WithAuthor(title_clean), Quoted(title_clean) >>
        ELSE <<>>

\* lines 92-96: the query of the first words of the body
IntroQueries(text) ==
    LET intro_words   == SplitWords(text)
        intro_snippet == JoinWords(Take(intro_words, IntroWords))
    IN  IF Len(intro_words) > 0 /\ Len(SplitWords(intro_snippet)) > MinQuoteWords
        THEN << Quoted(intro_snippet) >> ELSE <<>>

\* lines 98-102: the queries of the keywords
KeywordQueries(keywords) ==
    (IF Len(keywords) >= 3 THEN << Quoted(JoinWords(Take(keywords, 3))) >> ELSE <<>>)
    \o (IF Len(keywords) >= 4 THEN << Quoted(JoinWords(Take(keywords, 4))) >> ELSE <<>>)

\* lines 104-109: the queries of the first sentences
RECURSIVE SentenceQueries(_)
SentenceQueries(sentences) ==
    IF Len(sentences) = 0 THEN <<>>
    ELSE LET sent_clean == Strip(Head(sentences))
         IN  (IF Len(SplitWords(sent_clean)) > MinQuoteWords
              THEN << WithAuthor(sent_clean), Quoted(sent_clean) >> ELSE <<>>)
             \o SentenceQueries(Tail(sentences))

\* lines 111-114: domain_queries
DomainQueries(queries) ==
    [n \in 1..(Len(TARGET_DOMAINS) * Len(queries)) |->
        LET d == ((n - 1) \div Len(queries)) + 1
            q == ((n - 1) % Len(queries)) + 1
        IN  <<"s","i","t","e",":">> \o TARGET_DOMAINS[d] \o <<" ">> \o queries[q]]

\* the final list without the removal of repeated queries
Deduplicate_Keep(qs) == qs

\* list(dict.fromkeys(qs))
Deduplicate(qs) == CounterKeys(qs)

\* the unscoped queries of a post, lines 84-109
UnscopedQueries(post, keywords) ==
    TitleQueries(post.title) \o IntroQueries(post.text) \o KeywordQueries(keywords)
    \o SentenceQueries(Take(SplitOn(post.text, "."), MaxSentences))

\* a body: n filler words, then the given words
Filler(n) == [k \in 1..n |-> <<"i">>]

BodyHeads == {<<>>, << <<"p","o","r","e","z">>, <<"V","l","a","d","a">>, <<"r","e","f","o","r","m","a">>, <<"m","j","e","r","a",".">> >>}
BodyVocabulary == {<<"v","l","a","d","a">>, <<"m","j","e","r","a",".">>, <<"n","i","j","e">>, <<"p","d","v">>}
BodyFillers == {0, 7, 118}
PostTitles == {<<>>, <<"T", "\n">>}

QueryPosts ==
    {[title |-> t, text |-> JoinWords(Filler(n) \o h \o tail)] :
        t \in PostTitles, n \in BodyFillers, h \in BodyHeads,
        tail \in SeqsUpTo(BodyVocabulary, MaxTailWords)}

\* the post of one call; everything else stays idle
InitBuildQueries ==
    /\ spc = "idle"
    /\ inp = ExampleArgs
    /\ res_app = None
    /\ res_report = None
    /\ variant = "none"
    /\ pc = "idle"
    /\ results = <<>>
    /\ seen_links = {}
    /\ articles = <<>>
    /\ gov_articles = <<>>
    /\ norm = [pc |-> "idle"]
    /\ report = [pc |-> "idle"]
    /\ run = [pc |-> "idle"]
    /\ rpc = "idle"
    /\ post_i = 0
    /\ query_i = 0
    /\ pending = <<>>
    /\ seen_urls = {}
    /\ findings = <<>>
    /\ last = [outcome |-> "none"]
    /\ log = NoCalls
    /\ \E p \in QueryPosts : bq = [pc |-> "input", post |-> p]

\* one call of build_queries
CallBuildQueries ==
    /\ bq.pc = "input"
    /\ LET keywords == extract_keywords(bq.post.text)
           queries  == UnscopedQueries(bq.post, keywords)
       IN  bq' = [pc |-> "done", post |-> bq.post, keywords |-> keywords,
                  queries |-> queries,
                  out |-> Deduplicate(queries \o DomainQueries(queries))]
    /\ UNCHANGED <<report, score_vars, run_vars, repost_vars>>

NextBuildQueries == CallBuildQueries

SpecBuildQueries == InitBuildQueries /\ [][NextBuildQueries]_vars

-----------------------------------------------------------------------------
(* Claims about build_queries, checked under SpecBuildQueries *)

\* the index of the first occurrence of q in qs
FirstAt(qs, q) == CHOOSE i \in 1..Len(qs) : qs[i] = q /\ \A j \in 1..(i - 1) : qs[j] # q

IsScoped(q) == StartsWith(q, <<"s","i","t","e",":">>)

\* C23: build_queries returns a sequence without a repeated query string; its
\* queries stand in the order of their first occurrence among the queries that
\* were built, every unscoped query stands before every domain-scoped query,
\* and the domain-scoped part is "site:<domain> <q>" for every domain of
\* TARGET_DOMAINS in list order and, within a domain, every unscoped query q of
\* the result in its order.
C23_DedupedScopedAfterUnscoped ==
    bq.pc = "done" =>
        LET out      == bq.out
            built    == bq.queries
            unscoped == SelectSeq(out, LAMBDA q : ~IsScoped(q))
            scoped   == SelectSeq(out, LAMBDA q : IsScoped(q))
        IN  /\ \A i, j \in 1..Len(out) : i < j => out[i] # out[j]
            /\ out = unscoped \o scoped
            /\ {unscoped[i] : i \in 1..Len(unscoped)} = {built[i] : i \in 1..Len(built)}
            /\ \A i, j \in 1..Len(unscoped) :
                   i < j => FirstAt(built, unscoped[i]) < FirstAt(built, unscoped[j])
            /\ Len(scoped) = Len(TARGET_DOMAINS) * Len(unscoped)
            /\ \A d \in 1..Len(TARGET_DOMAINS) : \A k \in 1..Len(unscoped) :
                   scoped[(d - 1) * Len(unscoped) + k]
                       = <<"s","i","t","e",":">> \o TARGET_DOMAINS[d] \o <<" ">> \o unscoped[k]

\* a post whose opening words and whose first sentence give the same quoted
\* query: the query was built twice and is returned once, with its nine
\* scoped forms
C23_Witness ==
    /\ bq.pc = "done"
    /\ \E i, j \in 1..Len(bq.queries) : i < j /\ bq.queries[i] = bq.queries[j]
    /\ Len(bq.out) = (Len(TARGET_DOMAINS) + 1) * (Len(bq.queries) - 1)
    /\ Len(bq.post.title) > 0

\* the words extract_keywords looks at: the runs of letters of the lower-cased
\* body, the first WindowWords of them
WindowOf(text) == Take(FindWords(Lower(text)), WindowWords)

\* the places in the window that hold a keyword
KeywordPlaces(window) ==
    {i \in 1..Len(window) : window[i] \notin StopWords /\ Len(window[i]) > MinKeywordLen}

\* w stands before v in the ranking: it is more frequent in the window, or as
\* frequent and seen first
RanksBefore(window, w, v) ==
    LET places == KeywordPlaces(window)
        count(x) == Cardinality({i \in places : window[i] = x})
        first(x) == CHOOSE i \in places : window[i] = x /\ \A j \in places : window[j] = x => i <= j
    IN  \/ count(w) > count(v)
        \/ count(w) = count(v) /\ first(w) < first(v)

\* C24: the keywords of build_queries are the words among the first 120 words
\* of the body that are no stopwords and longer than 3 characters, ranked by
\* descending frequency and, among equally frequent ones, by first appearance
\* (at most the 8 best ranked); the quoted query of the best 3 is built exactly
\* when there are at least 3 keywords and the quoted query of the best 4
\* exactly when there are at least 4, between the intro query and the sentence
\* queries.
C24_KeywordQueries ==
    bq.pc = "done" =>
        LET window   == WindowOf(bq.post.text)
            eligible == {window[i] : i \in KeywordPlaces(window)}
            kw       == bq.keywords
            top(n)   == Quoted(JoinWords(SubSeq(kw, 1, n)))
            expected == (IF Len(kw) >= 3 THEN << top(3) >> ELSE <<>>)
                        \o (IF Len(kw) >= 4 THEN << top(4) >> ELSE <<>>)
        IN  /\ {kw[i] : i \in 1..Len(kw)} \subseteq eligible
            /\ Len(kw) = Min(TopKeywords, Cardinality(eligible))
            /\ \A i, j \in 1..Len(kw) : i < j => RanksBefore(window, kw[i], kw[j])
            /\ \A w \in eligible : (\A i \in 1..Len(kw) : kw[i] # w) =>
                   \A i \in 1..Len(kw) : RanksBefore(window, kw[i], w)
            /\ bq.queries = TitleQueries(bq.post.title) \o IntroQueries(bq.post.text)
                            \o expected
                            \o SentenceQueries(Take(SplitOn(bq.post.text, "."), MaxSentences))

\* a body in which a word seen later is the most frequent one and leads the
\* keywords, with four keywords and both keyword queries
C24_Witness ==
    /\ bq.pc = "done"
    /\ Len(bq.keywords) >= 4
    /\ LET window == WindowOf(bq.post.text)
       IN  \E i, j \in KeywordPlaces(window) :
               /\ i < j
               /\ window[j] = bq.keywords[1]
               /\ window[i] = bq.keywords[2]
               /\ \A k \in KeywordPlaces(window) : k < i => window[k] # window[j]
    /\ \E n \in 1..(Len(bq.queries) - 1) :
           /\ bq.queries[n] = Quoted(JoinWords(SubSeq(bq.keywords, 1, 3)))
           /\ bq.queries[n + 1] = Quoted(JoinWords(SubSeq(bq.keywords, 1, 4)))

====
